---- MODULE Spec2Model ----
(***************************************************************************)
(* The note client of App.tsx (src/unnamed/part_000) with its NoteList,    *)
(* NoteEditor and Sidebar components, run against a document store that   *)
(* holds the 'notes' collection.  Every asynchronous handler is split at   *)
(* its await: the part before it issues the remote write, the store        *)
(* applies or rejects the write, and the continuation runs afterwards.     *)
(***************************************************************************)
EXTENDS Integers, Sequences, FiniteSets, TLC

\* ------------------------------------------------------------- bounds ----
MaxIds == 3          \* document identifiers the store can hand out
MaxTime == 2         \* the clock runs 0..MaxTime
MaxOps == 1          \* remote writes the client issues in one run
MaxRemote == 1       \* writes made to the store by another path
MaxUi == 2           \* selections, back actions, resizes and keystrokes of the user
MaxEdits == 2        \* fields the user edits in an editing session

Ids == 1..MaxIds

\* -------------------------------------------------- values of the code ----
\* A stored timestamp field is a store-native timestamp (a natural number),
\* is missing from the document, or holds a value without toDate (null).
Absent == 0 - 1
Malformed == 0 - 2

\* title of the document handleCreateNote writes (a Korean literal meaning
\* "new memo" in the source)
NewTitle == "New memo"

\* what the user can type into the two text fields
DraftTitles == {"a"}
DraftContents == {"b"}

\* selectedNote === null
NoNote == [id |-> 0, title |-> "", content |-> "", createdAt |-> 0, updatedAt |-> 0]

\* the ghost record kept before any handler has run
NoEvent == [kind |-> "init", id |-> 0, sel |-> NoNote, note |-> NoNote, t |-> 0]

VARIABLES
    store,          \* the documents of the 'notes' collection
    usedIds,        \* identifiers the store has handed out so far
    notes,          \* useState<Note[]>
    selectedNote,   \* useState<Note | null>
    showDetail,     \* useState(false)
    isMobile,       \* useMediaQuery('(max-width:600px)')
    title,          \* NoteEditor draft title
    content,        \* NoteEditor draft content
    subs,           \* live onSnapshot listeners, each with the selectedNote it closed over
    dirty,          \* the store owes the listener a snapshot
    ops,            \* remote writes of the client in flight, in issue order
    now,            \* the clock read by new Date()
    mounted,        \* App is mounted
    quiet,          \* the user and every other writer have stopped
    opsIssued,      \* number of remote writes issued
    remoteDone,     \* number of writes made by another path
    uiDone,         \* number of selections, back actions, resizes and keystrokes
    createPeriod,   \* a Create was issued and no snapshot has been processed since
    last            \* the handler that ran last, with what it saw

vars == <<store, usedIds, notes, selectedNote, showDetail, isMobile, title, content,
          subs, dirty, ops, now, mounted, quiet, opsIssued, remoteDone, uiDone, createPeriod, last>>

\* ------------------------------------------------------------ the store ----
StoreIds(st) == {d.id : d \in st}

DocOf(st, id) == CHOOSE d \in st : d.id = id

\* orderBy('updatedAt', 'desc'): documents without the field are not matched;
\* a non-timestamp value sorts below every timestamp; ties go by identifier.
Visible(st) == {d \in st : d.updatedAt # Absent}

BeforeAsc(a, b) == a.updatedAt < b.updatedAt \/ (a.updatedAt = b.updatedAt /\ a.id < b.id)

Before(a, b) == a.updatedAt > b.updatedAt \/ (a.updatedAt = b.updatedAt /\ a.id > b.id)

RECURSIVE OrderDesc(_)
OrderDesc(S) ==
    IF S = {} THEN <<>>
    ELSE LET m == CHOOSE d \in S : \A e \in S \ {d} : Before(d, e)
         IN <<m>> \o OrderDesc(S \ {m})

Query(st) == OrderDesc(Visible(st))

\* d.createdAt?.toDate ? d.createdAt.toDate() : new Date()
Coerce(raw, t) == IF raw >= 0 THEN raw ELSE t

\* the mapping of a document to a Note (part of snapshot.docs.map), with the
\* timestamp fields taken as they are stored
toNoteRaw(d, t) == d

toNote(d, t) ==
    [id |-> d.id, title |-> d.title, content |-> d.content,
     createdAt |-> Coerce(d.createdAt, t), updatedAt |-> Coerce(d.updatedAt, t)]

\* snapshot.docs.map(...)
SnapshotData(st, t) == LET q == Query(st) IN [i \in 1..Len(q) |-> toNote(q[i], t)]

NoteIds(list) == {list[i].id : i \in 1..Len(list)}

\* ------------------------------------------------------- the components ----
\* the cleanup of the subscription effect: () => unsubscribe()
CleanupNothing(s) == s

Cleanup(s) == IF Len(s) = 0 THEN s ELSE SubSeq(s, 1, Len(s) - 1)

\* the effect with dependency [selectedNote]: cleanup of the previous run,
\* then onSnapshot with a callback closed over the new selectedNote
Effect(s, sel) == Append(Cleanup(s), [sel |-> sel])

\* NoteEditor is rendered beside the list on desktop, and on mobile only
\* while the detail view is shown
EditorShown(mob, det, sel) == ~mob \/ (det /\ sel # NoNote)

\* The drafts after a render: empty while NoteEditor is not rendered, seeded
\* from the note when it mounts or its note prop changes, kept otherwise.
DraftsKept(mob2, det2, sel2, changed) == <<title, content>>

Drafts(mob2, det2, sel2, changed) ==
    IF ~EditorShown(mob2, det2, sel2) THEN <<"", "">>
    ELSE IF ~EditorShown(isMobile, showDetail, selectedNote) \/ mob2 # isMobile \/ changed
         THEN <<sel2.title, sel2.content>>
         ELSE <<title, content>>

\* NoteList is rendered (desktop, or the mobile list view)
ListShown == ~isMobile \/ ~(showDetail /\ selectedNote # NoNote)

\* what the responsive shell shows
View ==
    IF isMobile
    THEN (IF showDetail /\ selectedNote # NoNote THEN "detail" ELSE "list")
    ELSE "split"

\* A render after the state setters ran; changed says that selectedNote is
\* a new object, which re-runs the effects that depend on it.
Commit(sel2, det2, mob2, changed) ==
    /\ selectedNote' = sel2
    /\ showDetail' = det2
    /\ isMobile' = mob2
    /\ subs' = IF changed THEN Effect(subs, sel2) ELSE subs
    /\ title' = Drafts(mob2, det2, sel2, changed)[1]
    /\ content' = Drafts(mob2, det2, sel2, changed)[2]

\* The collection as the client can find it at startup: empty, or holding
\* notes written earlier, some by writers that left out createdAt or stored
\* something that is not a timestamp in updatedAt.
Doc(id, t, c, ca, ua) ==
    [id |-> id, title |-> t, content |-> c, createdAt |-> ca, updatedAt |-> ua]

InitStores ==
    { {},
      {Doc(1, NewTitle, "", 0, 0), Doc(2, NewTitle, "", 0, 1)},
      {Doc(1, NewTitle, "", Absent, 0), Doc(2, NewTitle, "", 0, Malformed)} }

Init ==
    /\ store \in InitStores
    /\ usedIds = StoreIds(store)
    /\ notes = <<>>
    /\ selectedNote = NoNote
    /\ showDetail = FALSE
    /\ isMobile \in BOOLEAN
    /\ title = ""
    /\ content = ""
    /\ subs = Effect(<<>>, NoNote)
    /\ dirty = TRUE
    /\ ops = <<>>
    /\ now = 1
    /\ mounted = TRUE
    /\ quiet = FALSE
    /\ opsIssued = 0
    /\ remoteDone = 0
    /\ uiDone = 0
    /\ createPeriod = FALSE
    /\ last = NoEvent

\* the ghost record of a handler: its kind, the identifier it is about, the
\* selection it found, the note or document it worked on, and a time
Event(k, id, sel, note, t) == [kind |-> k, id |-> id, sel |-> sel, note |-> note, t |-> t]

\* identifiers the store can still hand out, the ones owed to creates in
\* flight set aside
FreeIds ==
    MaxIds - Cardinality(usedIds)
           - Cardinality({i \in 1..Len(ops) : ops[i].kind = "create" /\ ops[i].status = "sent"})

\* the identifier the store gives the next new document: never one it has
\* handed out before
NextId == CHOOSE id \in Ids \ usedIds : \A j \in Ids \ usedIds : id <= j

\* ------------------------------------------------------- user actions ----
\* showDetail after onSelectNote: the mobile list passes
\* note => { setSelectedNote(note); setShowDetail(true) }, the desktop list
\* passes setSelectedNote itself
SelectDetailKeep(mob, det) == det

SelectDetail(mob, det) == IF mob THEN TRUE ELSE det

\* onSelectNote of a row of NoteList
SelectNote(i) ==
    /\ mounted /\ ~quiet /\ uiDone < MaxUi /\ ListShown
    /\ i \in 1..Len(notes)
    /\ \E changed \in (IF notes[i] = selectedNote THEN BOOLEAN ELSE {TRUE}) :
          /\ Commit(notes[i], SelectDetail(isMobile, showDetail), isMobile, changed)
          /\ dirty' = (dirty \/ changed)
    /\ last' = Event("select", notes[i].id, NoNote, NoNote, 0)
    /\ uiDone' = uiDone + 1
    /\ UNCHANGED <<store, usedIds, notes, ops, now, mounted, quiet, opsIssued, remoteDone, createPeriod>>

\* the back button of the mobile detail view
Back ==
    /\ mounted /\ ~quiet /\ uiDone < MaxUi
    /\ View = "detail"
    /\ Commit(selectedNote, FALSE, isMobile, FALSE)
    /\ last' = Event("back", selectedNote.id, selectedNote, NoNote, 0)
    /\ uiDone' = uiDone + 1
    /\ UNCHANGED <<store, usedIds, notes, dirty, ops, now, mounted, quiet, opsIssued,
                   remoteDone, createPeriod>>

\* the viewport crosses the 600px threshold
Resize ==
    /\ mounted /\ ~quiet /\ uiDone < MaxUi
    /\ Commit(selectedNote, showDetail, ~isMobile, FALSE)
    /\ last' = Event("other", 0, NoNote, NoNote, 0)
    /\ uiDone' = uiDone + 1
    /\ UNCHANGED <<store, usedIds, notes, dirty, ops, now, mounted, quiet, opsIssued,
                   remoteDone, createPeriod>>

\* handleTitleChange / handleContentChange
TitleChange(v) ==
    /\ mounted /\ ~quiet /\ uiDone < MaxUi
    /\ EditorShown(isMobile, showDetail, selectedNote) /\ selectedNote # NoNote
    /\ title' = v
    /\ last' = Event("key", 0, NoNote, NoNote, 0)
    /\ uiDone' = uiDone + 1
    /\ UNCHANGED <<store, usedIds, notes, selectedNote, showDetail, isMobile, content, subs,
                   dirty, ops, now, mounted, quiet, opsIssued, remoteDone, createPeriod>>

ContentChange(v) ==
    /\ mounted /\ ~quiet /\ uiDone < MaxUi
    /\ EditorShown(isMobile, showDetail, selectedNote) /\ selectedNote # NoNote
    /\ content' = v
    /\ last' = Event("key", 0, NoNote, NoNote, 0)
    /\ uiDone' = uiDone + 1
    /\ UNCHANGED <<store, usedIds, notes, selectedNote, showDetail, isMobile, title, subs,
                   dirty, ops, now, mounted, quiet, opsIssued, remoteDone, createPeriod>>

Op(k, id, note, sel, t) ==
    [kind |-> k, id |-> id, note |-> note, sel |-> sel, t |-> t, status |-> "sent"]

\* handleCreateNote up to its await
CreateIssue ==
    /\ mounted /\ ~quiet /\ ~isMobile
    /\ opsIssued < MaxOps
    /\ FreeIds > 0
    /\ LET newNote == [id |-> 0, title |-> NewTitle, content |-> "",
                       createdAt |-> now, updatedAt |-> now]
       IN ops' = Append(ops, Op("create", 0, newNote, NoNote, now))
    /\ opsIssued' = opsIssued + 1
    /\ createPeriod' = TRUE
    /\ last' = Event("createIssue", 0, NoNote, NoNote, 0)
    /\ UNCHANGED <<store, usedIds, notes, selectedNote, showDetail, isMobile, title, content,
                   subs, dirty, now, mounted, quiet, remoteDone, uiDone>>

\* the timestamp handleUpdateNote puts in its updateDoc payload
UpdateStampStale(updatedNote, t) == updatedNote.updatedAt

UpdateStamp(updatedNote, t) == t

\* handleUpdateNote up to its await
UpdateIssue(updatedNote) ==
    /\ ops' = Append(ops, Op("update", updatedNote.id,
                             [updatedNote EXCEPT !.updatedAt = UpdateStamp(updatedNote, now)],
                             NoNote, now))
    /\ opsIssued' = opsIssued + 1
    /\ last' = Event("updateIssue", updatedNote.id, NoNote, NoNote, 0)
    /\ UNCHANGED <<store, usedIds, notes, selectedNote, showDetail, isMobile, title, content,
                   subs, dirty, now, mounted, quiet, remoteDone, uiDone, createPeriod>>

\* handleTitleBlur: onUpdateNote({ ...note, title })
TitleBlur ==
    /\ mounted /\ ~quiet
    /\ EditorShown(isMobile, showDetail, selectedNote) /\ selectedNote # NoNote
    /\ UpdateIssue([selectedNote EXCEPT !.title = title])

\* handleContentBlur: onUpdateNote({ ...note, content })
ContentBlur ==
    /\ mounted /\ ~quiet
    /\ EditorShown(isMobile, showDetail, selectedNote) /\ selectedNote # NoNote
    /\ UpdateIssue([selectedNote EXCEPT !.content = content])

\* the selectedNote that the continuation of handleDeleteNote compares with
DeleteClosure(sel) == sel

\* The selection after a click on the delete button of the row of note: the
\* button's handler calls e.stopPropagation(), so onSelectNote(note) of the
\* row does not run.
DeleteClickSelects(note, sel) == note

DeleteClick(note, sel) == sel

\* the delete button of a row: handleDeleteNote up to its await
DeleteIssue(i) ==
    /\ mounted /\ ~quiet /\ ListShown
    /\ i \in 1..Len(notes)
    /\ opsIssued < MaxOps
    /\ ops' = Append(ops, Op("delete", notes[i].id, NoNote, DeleteClosure(selectedNote), now))
    /\ Commit(DeleteClick(notes[i], selectedNote), showDetail, isMobile, FALSE)
    /\ opsIssued' = opsIssued + 1
    /\ last' = Event("deleteIssue", notes[i].id, NoNote, NoNote, 0)
    /\ UNCHANGED <<store, usedIds, notes, dirty, now, mounted, quiet, remoteDone, uiDone,
                   createPeriod>>

\* ------------------------------------------------- the store's answers ----
SentIdx == {i \in 1..Len(ops) : ops[i].status = "sent"}

\* the store takes the client's writes in the order they were issued
FirstSent == CHOOSE i \in SentIdx : \A j \in SentIdx : i <= j

\* addDoc(notesRef, newNote) reaches the store
StoreApplyCreate(id) ==
    /\ mounted /\ SentIdx # {}
    /\ ops[FirstSent].kind = "create"
    /\ id = NextId
    /\ store' = store \cup {[ops[FirstSent].note EXCEPT !.id = id]}
    /\ usedIds' = usedIds \cup {id}
    /\ ops' = [ops EXCEPT ![FirstSent].status = "acked", ![FirstSent].id = id]
    /\ dirty' = TRUE
    /\ last' = Event("createApplied", id, NoNote, ops[FirstSent].note, 0)
    /\ UNCHANGED <<notes, selectedNote, showDetail, isMobile, title, content, subs, now,
                   mounted, quiet, opsIssued, remoteDone, uiDone, createPeriod>>

\* updateDoc(ref, { title, content, updatedAt }) reaches the store; it
\* succeeds only on a document that exists
StoreApplyUpdate ==
    /\ mounted /\ SentIdx # {}
    /\ ops[FirstSent].kind = "update"
    /\ ops[FirstSent].id \in StoreIds(store)
    /\ LET op == ops[FirstSent]
           d == DocOf(store, op.id)
       IN /\ store' = (store \ {d}) \cup
                      {[d EXCEPT !.title = op.note.title, !.content = op.note.content,
                                 !.updatedAt = op.note.updatedAt]}
          /\ last' = Event("updateApplied", op.id, NoNote, d, op.t)
    /\ ops' = [ops EXCEPT ![FirstSent].status = "acked"]
    /\ dirty' = TRUE
    /\ UNCHANGED <<usedIds, notes, selectedNote, showDetail, isMobile, title, content, subs,
                   now, mounted, quiet, opsIssued, remoteDone, uiDone, createPeriod>>

\* deleteDoc(doc(db, 'notes', noteId)) reaches the store
StoreApplyDelete ==
    /\ mounted /\ SentIdx # {}
    /\ ops[FirstSent].kind = "delete"
    /\ store' = {d \in store : d.id # ops[FirstSent].id}
    /\ ops' = [ops EXCEPT ![FirstSent].status = "acked"]
    /\ dirty' = (dirty \/ ops[FirstSent].id \in StoreIds(store))
    /\ last' = Event("deleteApplied", ops[FirstSent].id, NoNote, NoNote, 0)
    /\ UNCHANGED <<usedIds, notes, selectedNote, showDetail, isMobile, title, content, subs,
                   now, mounted, quiet, opsIssued, remoteDone, uiDone, createPeriod>>

\* The handlers in flight after the awaited promise of the i-th rejects: no
\* try/catch surrounds the await, so that handler ends there.
RejectedResumes(q, i) == [q EXCEPT ![i].status = "acked"]

Rejected(q, i) == [j \in 1..(Len(q) - 1) |-> IF j < i THEN q[j] ELSE q[j + 1]]

\* The remote write fails: the awaited promise rejects, nothing catches it
\* and the rest of the handler never runs.  An update of a missing document
\* always fails; any write can fail while the environment still acts.
StoreReject ==
    /\ mounted /\ SentIdx # {}
    /\ \/ ~quiet
       \/ ops[FirstSent].kind = "update" /\ ops[FirstSent].id \notin StoreIds(store)
    /\ ops' = Rejected(ops, FirstSent)
    /\ last' = Event("rejected", ops[FirstSent].id, NoNote, NoNote, 0)
    /\ UNCHANGED <<store, usedIds, notes, selectedNote, showDetail, isMobile, title, content,
                   subs, dirty, now, mounted, quiet, opsIssued, remoteDone, uiDone, createPeriod>>

\* ------------------------------------------- the handlers' continuations ----
Acked(k) == mounted /\ ops # <<>> /\ Head(ops).status = "acked" /\ Head(ops).kind = k

\* the note handleCreateNote selects: { ...newNote, id: docRef.id }
CreatedNoteNoId(op) == op.note

CreatedNote(op) == [op.note EXCEPT !.id = op.id]

\* handleCreateNote after its await
CreateComplete ==
    /\ Acked("create")
    /\ Commit(CreatedNote(Head(ops)), showDetail, isMobile, TRUE)
    /\ dirty' = TRUE
    /\ ops' = Tail(ops)
    /\ last' = Event("createDone", Head(ops).id, NoNote, Head(ops).note, 0)
    /\ UNCHANGED <<store, usedIds, notes, now, mounted, quiet, opsIssued, remoteDone, uiDone,
                   createPeriod>>

\* the note handleUpdateNote selects: { ...updatedNote, updatedAt: new Date() }
UpdatedNote(op, t) == [op.note EXCEPT !.updatedAt = t]

\* handleUpdateNote after its await
UpdateComplete ==
    /\ Acked("update")
    /\ Commit(UpdatedNote(Head(ops), now), showDetail, isMobile, TRUE)
    /\ dirty' = TRUE
    /\ ops' = Tail(ops)
    /\ last' = Event("updateDone", Head(ops).id, selectedNote, Head(ops).note, Head(ops).t)
    /\ UNCHANGED <<store, usedIds, notes, now, mounted, quiet, opsIssued, remoteDone, uiDone,
                   createPeriod>>

\* selectedNote?.id === noteId, on the selectedNote the handler closed over
DeleteClears(op) == op.sel # NoNote /\ op.sel.id = op.id

\* the list after handleDeleteNote: the handler has no setNotes call, the
\* deleted note leaves the list with the next snapshot only
ListAfterDeleteLocal(list, id) == SelectSeq(list, LAMBDA n : n.id # id)

ListAfterDelete(list, id) == list

\* handleDeleteNote after its await
DeleteComplete ==
    /\ Acked("delete")
    /\ IF DeleteClears(Head(ops))
       THEN /\ Commit(NoNote, showDetail, isMobile, selectedNote # NoNote)
            /\ dirty' = (dirty \/ selectedNote # NoNote)
       ELSE /\ Commit(selectedNote, showDetail, isMobile, FALSE)
            /\ dirty' = dirty
    /\ notes' = ListAfterDelete(notes, Head(ops).id)
    /\ ops' = Tail(ops)
    /\ last' = Event("deleteDone", Head(ops).id, selectedNote, Head(ops).sel, 0)
    /\ UNCHANGED <<store, usedIds, now, mounted, quiet, opsIssued, remoteDone, uiDone,
                   createPeriod>>

\* ------------------------------------------------ the snapshot callback ----
\* selectedNote && !data.find(n => n.id === selectedNote.id)
SelectionVanishedNever(s, data) == FALSE

SelectionVanishedAlways(s, data) == s.sel # NoNote

SelectionVanished(s, data) == s.sel # NoNote /\ s.sel.id \notin NoteIds(data)

\* setNotes(data)
NewListAppend(old, data) == old \o data

NewList(old, data) == data

\* the store delivers the current result of the query to the listener
Snapshot ==
    /\ mounted /\ dirty /\ Len(subs) > 0
    /\ LET data == SnapshotData(store, now)
           clear == \E k \in 1..Len(subs) : SelectionVanished(subs[k], data)
       IN /\ notes' = NewList(notes, data)
          /\ IF clear
             THEN /\ Commit(NoNote, showDetail, isMobile, selectedNote # NoNote)
                  /\ dirty' = (selectedNote # NoNote)
             ELSE /\ Commit(selectedNote, showDetail, isMobile, FALSE)
                  /\ dirty' = FALSE
    /\ createPeriod' = FALSE
    /\ last' = Event("snapshot", 0, selectedNote, NoNote, 0)
    /\ UNCHANGED <<store, usedIds, ops, now, mounted, quiet, opsIssued, remoteDone, uiDone>>

\* ---------------------------------------------------------- environment ----
\* another client of the same collection creates a note
RemoteAdd(id) ==
    /\ mounted /\ ~quiet /\ remoteDone < MaxRemote
    /\ FreeIds > 0
    /\ id = NextId
    /\ store' = store \cup {Doc(id, NewTitle, "", now, now)}
    /\ usedIds' = usedIds \cup {id}
    /\ remoteDone' = remoteDone + 1
    /\ uiDone' = uiDone
    /\ dirty' = TRUE
    /\ last' = Event("remote", id, NoNote, NoNote, 0)
    /\ UNCHANGED <<notes, selectedNote, showDetail, isMobile, title, content, subs, ops, now,
                   mounted, quiet, opsIssued, createPeriod>>

\* another path edits a document
RemoteEdit(id) ==
    /\ mounted /\ ~quiet /\ remoteDone < MaxRemote
    /\ id \in StoreIds(store)
    /\ LET d == DocOf(store, id)
       IN store' = (store \ {d}) \cup {[d EXCEPT !.title = "a", !.updatedAt = now]}
    /\ remoteDone' = remoteDone + 1
    /\ uiDone' = uiDone
    /\ dirty' = TRUE
    /\ last' = Event("remote", id, NoNote, NoNote, 0)
    /\ UNCHANGED <<usedIds, notes, selectedNote, showDetail, isMobile, title, content, subs,
                   ops, now, mounted, quiet, opsIssued, createPeriod>>

\* another path deletes a document
RemoteDelete(id) ==
    /\ mounted /\ ~quiet /\ remoteDone < MaxRemote
    /\ id \in StoreIds(store)
    /\ store' = {d \in store : d.id # id}
    /\ remoteDone' = remoteDone + 1
    /\ uiDone' = uiDone
    /\ dirty' = TRUE
    /\ last' = Event("remote", id, NoNote, NoNote, 0)
    /\ UNCHANGED <<usedIds, notes, selectedNote, showDetail, isMobile, title, content, subs,
                   ops, now, mounted, quiet, opsIssued, createPeriod>>

Tick ==
    /\ mounted /\ now < MaxTime
    /\ now' = now + 1
    /\ last' = Event("other", 0, NoNote, NoNote, 0)
    /\ UNCHANGED <<store, usedIds, notes, selectedNote, showDetail, isMobile, title, content,
                   subs, dirty, ops, mounted, quiet, opsIssued, remoteDone, uiDone, createPeriod>>

\* shutdown: the effect's cleanup runs and the component state is discarded;
\* the run of the client ends here
Unmount ==
    /\ mounted /\ ~quiet
    /\ mounted' = FALSE
    /\ subs' = Cleanup(subs)
    /\ notes' = <<>>
    /\ selectedNote' = NoNote
    /\ showDetail' = FALSE
    /\ title' = ""
    /\ content' = ""
    /\ ops' = <<>>
    /\ dirty' = FALSE
    /\ createPeriod' = FALSE
    /\ last' = Event("unmount", 0, NoNote, NoNote, 0)
    /\ UNCHANGED <<store, usedIds, isMobile, now, quiet, opsIssued, remoteDone, uiDone>>

\* from here on the user does nothing and no other path writes
Quiesce ==
    /\ mounted /\ ~quiet
    /\ quiet' = TRUE
    /\ last' = Event("other", 0, NoNote, NoNote, 0)
    /\ UNCHANGED <<store, usedIds, notes, selectedNote, showDetail, isMobile, title, content,
                   subs, dirty, ops, now, mounted, opsIssued, remoteDone, uiDone, createPeriod>>

\* what happens without the user or another writer: the store answers a
\* write, a continuation runs, a snapshot is delivered
SystemStep ==
    \/ \E id \in Ids : StoreApplyCreate(id)
    \/ StoreApplyUpdate
    \/ StoreApplyDelete
    \/ StoreReject
    \/ CreateComplete
    \/ UpdateComplete
    \/ DeleteComplete
    \/ Snapshot

\* what the user does
UserStep ==
    \/ \E i \in 1..MaxIds : SelectNote(i)
    \/ Back
    \/ Resize
    \/ \E v \in DraftTitles : TitleChange(v)
    \/ \E v \in DraftContents : ContentChange(v)
    \/ CreateIssue
    \/ (opsIssued < MaxOps /\ TitleBlur)
    \/ (opsIssued < MaxOps /\ ContentBlur)
    \/ \E i \in 1..MaxIds : DeleteIssue(i)
    \/ Unmount

\* what other writers of the collection do
RemoteStep ==
    \/ \E id \in Ids : RemoteAdd(id)
    \/ \E id \in Ids : RemoteEdit(id)
    \/ \E id \in Ids : RemoteDelete(id)

Next == UserStep \/ SystemStep \/ RemoteStep \/ Tick

Spec == Init /\ [][Next]_vars

\* The client as the only writer of the collection, with a user who may fall
\* silent for good; the store and the event loop do not stall.
NextLive == UserStep \/ SystemStep \/ Tick \/ Quiesce

Fairness == WF_vars(SystemStep)

LiveSpec == Init /\ [][NextLive]_vars /\ Fairness

\* An editing session: a note of the collection is listed and selected, its
\* editor is shown, and the user changes the title, leaves the title field,
\* changes the content and leaves the content field, while the store answers
\* and the continuations and snapshots run whenever they can.  uiDone and
\* opsIssued say how far the user has got.
EditInit ==
    /\ store \in InitStores \ {{}}
    /\ usedIds = StoreIds(store)
    /\ now = 1
    /\ notes = SnapshotData(store, now)
    /\ selectedNote \in {notes[i] : i \in 1..Len(notes)}
    /\ isMobile \in BOOLEAN
    /\ showDetail = isMobile
    /\ title = selectedNote.title
    /\ content = selectedNote.content
    /\ subs = Effect(<<>>, selectedNote)
    /\ dirty = TRUE
    /\ ops = <<>>
    /\ mounted = TRUE
    /\ quiet = FALSE
    /\ opsIssued = 0
    /\ remoteDone = 0
    /\ uiDone = 0
    /\ createPeriod = FALSE
    /\ last = Event("select", selectedNote.id, NoNote, NoNote, 0)

EditNext ==
    \/ (uiDone = 0 /\ opsIssued = 0 /\ \E v \in DraftTitles : TitleChange(v))
    \/ (uiDone = 1 /\ opsIssued = 0 /\ TitleBlur)
    \/ (uiDone = 1 /\ opsIssued = 1 /\ \E v \in DraftContents : ContentChange(v))
    \/ (uiDone = MaxEdits /\ opsIssued = 1 /\ ContentBlur)
    \/ StoreApplyUpdate
    \/ UpdateComplete
    \/ Snapshot
    \/ Tick

EditSpec == EditInit /\ [][EditNext]_vars

\* ----------------------------------------------------------- the claims ----
\* the identifiers of the notes the client holds: the list and the selection
HeldIds == NoteIds(notes) \cup (IF selectedNote # NoNote THEN {selectedNote.id} ELSE {})

\* C1: when Delete(id) completes, the selection becomes none if the note
\* selected at that moment has identifier id, and is otherwise left exactly as
\* it was, whatever was selected or delivered while the delete was in flight.
C1_DeleteSelection ==
    last.kind = "deleteDone" =>
        IF last.sel # NoNote /\ last.sel.id = last.id
        THEN selectedNote = NoNote
        ELSE selectedNote = last.sel

\* C2 as stated: when Create completes the new note is selected, and the
\* document written and the selected note have an empty title and content.
C2_CreateEmpty ==
    /\ last.kind = "createApplied" =>
          /\ last.id \in StoreIds(store)
          /\ DocOf(store, last.id).title = ""
          /\ DocOf(store, last.id).content = ""
    /\ last.kind = "createDone" =>
          /\ selectedNote.id = last.id
          /\ selectedNote.title = ""
          /\ selectedNote.content = ""

\* C2 amended: when Create completes the new note is selected, and the
\* document written and the selected note have the title handleCreateNote
\* writes (NewTitle) and an empty content.
C2_CreateSelectsNew ==
    /\ last.kind = "createApplied" =>
          /\ last.id \in StoreIds(store)
          /\ DocOf(store, last.id).title = NewTitle
          /\ DocOf(store, last.id).content = ""
    /\ last.kind = "createDone" =>
          /\ selectedNote.id = last.id
          /\ selectedNote.title = NewTitle
          /\ selectedNote.content = ""

C2_Witness ==
    /\ last.kind = "createDone"
    /\ selectedNote.id = last.id
    /\ selectedNote.id \in StoreIds(store)

\* C3: after the callback has processed a snapshot the list holds exactly the
\* notes of that snapshot, once each, with their titles and contents, and the
\* selection is none if the note selected before had an identifier absent
\* from the snapshot and is unchanged otherwise.
C3_SnapshotReplaces ==
    last.kind = "snapshot" =>
        /\ NoteIds(notes) = StoreIds(Visible(store))
        /\ Len(notes) = Cardinality(Visible(store))
        /\ \A i \in 1..Len(notes) :
              /\ notes[i].title = DocOf(store, notes[i].id).title
              /\ notes[i].content = DocOf(store, notes[i].id).content
        /\ IF last.sel # NoNote /\ last.sel.id \notin StoreIds(Visible(store))
           THEN selectedNote = NoNote
           ELSE selectedNote = last.sel

\* the selected note was deleted from the store by another path and the next
\* snapshot has been processed
C3_Witness ==
    /\ last.kind = "snapshot"
    /\ last.sel # NoNote
    /\ last.sel.id \notin StoreIds(store)
    /\ last.sel.id \notin NoteIds(notes)
    /\ selectedNote = NoNote

\* C4: the displayed list is ordered by non-increasing updatedAt, the value
\* each note carries after the timestamp coercion, also when a document's
\* updatedAt is not a store-native timestamp.
C4_ListSorted ==
    \A i \in 1..(Len(notes) - 1) : notes[i].updatedAt >= notes[i + 1].updatedAt

\* C5: every note of the displayed list has updatedAt >= createdAt, also when
\* a timestamp field of its document is absent or malformed.
C5_UpdatedNotBeforeCreated ==
    \A i \in 1..Len(notes) : notes[i].updatedAt >= notes[i].createdAt

\* C6: a successful Update sets the stored document's updatedAt and the
\* selected note's updatedAt to a time no earlier than the time the edit was
\* issued, and leaves createdAt as it was, in the stored document and in the
\* note that is selected again.
C6_UpdateStamps ==
    /\ last.kind = "updateApplied" =>
          /\ DocOf(store, last.id).updatedAt >= last.t
          /\ DocOf(store, last.id).createdAt = last.note.createdAt
    /\ last.kind = "updateDone" =>
          /\ selectedNote.id = last.id
          /\ selectedNote.updatedAt >= last.t
          /\ selectedNote.createdAt = last.note.createdAt

\* an Update issued at one time has completed at a later one
C6_Witness ==
    /\ last.kind = "updateDone"
    /\ selectedNote.updatedAt > last.t
    /\ selectedNote.id \in StoreIds(store)
    /\ DocOf(store, selectedNote.id).updatedAt = last.t

\* The scenario of C7: the store holds a and b, a updated later than b, the
\* list shows them in that order, b is selected, a Create issued after a's
\* last update is in flight, and the user and every other writer are silent.
C7_Scenario(a, b) ==
    /\ mounted /\ quiet
    /\ a # b /\ StoreIds(store) = {a, b}
    /\ DocOf(store, b).updatedAt >= 0
    /\ DocOf(store, a).updatedAt > DocOf(store, b).updatedAt
    /\ Len(notes) = 2 /\ notes[1].id = a /\ notes[2].id = b
    /\ selectedNote # NoNote /\ selectedNote.id = b
    /\ Len(ops) = 1 /\ ops[1].kind = "create" /\ ops[1].status = "sent"
    /\ ops[1].note.updatedAt > DocOf(store, a).updatedAt

\* the list is the new note, a, b and the new note is selected
C7_Goal(a, b) ==
    /\ Len(notes) = 3
    /\ notes[1].id \notin {a, b} /\ notes[2].id = a /\ notes[3].id = b
    /\ selectedNote # NoNote /\ selectedNote.id = notes[1].id
    /\ selectedNote.title = NewTitle /\ selectedNote.content = ""

C7_Start == \E a \in Ids : \E b \in Ids : C7_Scenario(a, b)

\* Once the user and the other writers are silent the documents a and b of
\* the scenario stay in the store as they are, so they are the two documents
\* listed after the new note.
C7_Done ==
    \E a \in Ids : \E b \in Ids :
        /\ C7_Goal(a, b)
        /\ {a, b} \subseteq StoreIds(store)
        /\ DocOf(store, a).updatedAt > DocOf(store, b).updatedAt

\* C7: from the scenario the client eventually reaches, and stays in, a state
\* where the list is the new note followed by a and b and the new note is
\* selected.
C7_CreateScenario == [](C7_Start => <>[]C7_Done)

\* the scenario has run to its end: nothing is in flight or pending
C7_Witness ==
    /\ mounted /\ quiet /\ ops = <<>> /\ ~dirty
    /\ createPeriod = FALSE
    /\ C7_Done

\* C8 as stated: every note the client holds has the identifier of a document
\* in the store, except between issuing a Create and the next snapshot.
C8_HeldInStore ==
    ~createPeriod => HeldIds \subseteq StoreIds(store)

\* C8 amended: every note the client holds has the identifier of a document
\* in the store whenever no subscription update is pending, that is, once the
\* snapshot that follows the last change of the store or of the subscription
\* has been processed.
C8_HeldInStoreWhenDelivered ==
    (mounted /\ ~dirty) => HeldIds \subseteq StoreIds(store)

\* a document the client had listed is gone from the store and the snapshot
\* that says so has been processed
C8_Witness ==
    /\ mounted /\ ~dirty
    /\ last.kind = "snapshot"
    /\ notes # <<>>
    /\ Cardinality(StoreIds(store)) < Cardinality(usedIds)
    /\ selectedNote # NoNote

\* C9: from startup to shutdown exactly one subscription is live, also right
\* after a selection change, and none is live after shutdown.
C9_OneSubscription ==
    Len(subs) = (IF mounted THEN 1 ELSE 0)

\* the selection has changed and the one live listener is the replacement,
\* closed over the new selection
C9_Witness ==
    /\ last.kind = "select"
    /\ selectedNote # NoNote
    /\ Len(subs) = 1
    /\ subs[1].sel = selectedNote

\* C10: below the threshold the list view is shown while nothing is selected,
\* selecting a note switches to the detail view, and the back action returns
\* to the list view with the same note still selected.
C10_MobileNavigation ==
    /\ (mounted /\ isMobile /\ selectedNote = NoNote) => View = "list"
    /\ (last.kind = "select" /\ isMobile) => (View = "detail" /\ selectedNote.id = last.id)
    /\ last.kind = "back" =>
          (isMobile /\ View = "list" /\ selectedNote = last.sel /\ selectedNote # NoNote)

C10_Witness ==
    /\ last.kind = "back"
    /\ isMobile
    /\ View = "list"
    /\ selectedNote # NoNote

\* C11: when the remote write of Create, Update or Delete fails, the handler
\* that issued it ends there: it is no longer in flight (no continuation, no
\* retry), no remote write is issued or applied, and the selection and the
\* list are what they were.
C11_FailureLeavesState ==
    [][last'.kind = "rejected" =>
          /\ Len(ops') = Len(ops) - 1
          /\ \A i \in 1..Len(ops') : ops'[i] \in {ops[j] : j \in 1..Len(ops)}
          /\ opsIssued' = opsIssued
          /\ store' = store
          /\ selectedNote' = selectedNote
          /\ notes' = notes]_vars

\* a write was rejected while a note was selected and listed
C11_Witness ==
    /\ last.kind = "rejected"
    /\ selectedNote # NoNote
    /\ notes # <<>>
    /\ ops = <<>>

\* C12: when the store has applied the write of an Update or a Create (the
\* write answered last among those in flight), reading the written document
\* back through the snapshot mapping gives a note with
\* the title and the content that were written and with a createdAt and an
\* updatedAt that are timestamps (never null).
C12_RoundTrip ==
    last.kind \in {"updateApplied", "createApplied"} =>
        LET acked == {i \in 1..Len(ops) : ops[i].status = "acked"}
            written == ops[CHOOSE i \in acked : \A j \in acked : j <= i].note
            data == SnapshotData(store, now)
        IN \E i \in 1..Len(data) :
              /\ data[i].id = last.id
              /\ data[i].title = written.title
              /\ data[i].content = written.content
              /\ data[i].createdAt >= 0
              /\ data[i].updatedAt >= 0

\* a typed title was written to a document stored without createdAt, and the
\* snapshot that followed has been read
C12_Witness ==
    /\ last.kind = "snapshot"
    /\ opsIssued = 1 /\ remoteDone = 0 /\ ops = <<>>
    /\ \E i \in 1..Len(notes) :
          /\ notes[i].title \in DraftTitles
          /\ DocOf(store, notes[i].id).title = notes[i].title
          /\ DocOf(store, notes[i].id).createdAt = Absent
          /\ notes[i].createdAt >= 0

\* C13: the list is written by the subscription callback only: no step of
\* Create, Update or Delete (issue, answer of the store, completion), no
\* selection of a note and no back action changes it.
C13_ListWrittenBySnapshot ==
    [][last'.kind \in {"createIssue", "createApplied", "createDone",
                       "updateIssue", "updateApplied", "updateDone",
                       "deleteIssue", "deleteApplied", "deleteDone",
                       "rejected", "select", "back"}
          => notes' = notes]_vars

\* a Delete of a listed note has completed and the note is still listed
C13_Witness ==
    /\ last.kind = "deleteDone"
    /\ last.id \in NoteIds(notes)
    /\ last.id \notin StoreIds(store)

\* C14: a click on the delete button of a row issues a Delete with the
\* identifier of that row's note and runs no selection: the selection and
\* the view stay as they were, on mobile the detail view is not opened.
C14_DeleteClickOnlyDeletes ==
    [][last'.kind = "deleteIssue" =>
          /\ last'.id \in NoteIds(notes)
          /\ Len(ops') = Len(ops) + 1
          /\ ops'[Len(ops')].kind = "delete"
          /\ ops'[Len(ops')].id = last'.id
          /\ selectedNote' = selectedNote
          /\ showDetail' = showDetail
          /\ View' = View]_vars

\* on mobile the delete button of a row was clicked in the list view while
\* another note or none was selected
C14_Witness ==
    /\ last.kind = "deleteIssue"
    /\ isMobile /\ View = "list"
    /\ selectedNote.id # last.id
    /\ Len(ops) = 1 /\ ops[1].kind = "delete" /\ ops[1].id = last.id

\* C15: in the editor a keystroke changes a draft and nothing else, and issues
\* no remote write; an Update is issued only by a blur of a field while a
\* note is selected, one Update per blur, for the selected note; and whenever
\* the selected note changes, the drafts of the rendered editor become that
\* note's title and content, or empty strings when none is selected.
C15_EditorDrafts ==
    [][/\ last'.kind = "key" =>
             /\ ops' = ops /\ opsIssued' = opsIssued /\ store' = store
             /\ selectedNote' = selectedNote /\ notes' = notes /\ showDetail' = showDetail
       /\ (Len(ops') > Len(ops) /\ ops'[Len(ops')].kind = "update") =>
             /\ last'.kind = "updateIssue"
             /\ selectedNote # NoNote
             /\ ops'[Len(ops')].id = selectedNote.id
       /\ last'.kind = "updateIssue" =>
             /\ Len(ops') = Len(ops) + 1
             /\ opsIssued' = opsIssued + 1
             /\ \A i \in 1..Len(ops) : ops'[i] = ops[i]
       /\ (selectedNote' # selectedNote /\ EditorShown(isMobile, showDetail, selectedNote)') =>
             /\ title' = selectedNote'.title
             /\ content' = selectedNote'.content]_vars

\* a title was typed and sent by a blur, and before the write was answered a
\* snapshot without the selected note cleared the selection and the drafts
C15_Witness ==
    /\ last.kind = "snapshot"
    /\ ~isMobile
    /\ last.sel # NoNote /\ selectedNote = NoNote
    /\ Len(ops) = 1 /\ ops[1].kind = "update" /\ ops[1].status = "sent"
    /\ ops[1].note.title \in DraftTitles
    /\ uiDone = MaxUi
    /\ title = "" /\ content = ""

\* C16: the completion of an Update never changes which note is selected:
\* the selection after it identifies the note that was selected just before
\* it, or is none if none was.
C16_UpdateKeepsSelection ==
    last.kind = "updateDone" => selectedNote.id = last.sel.id

\* C17: in an editing session, once the user has changed and left the title
\* field and then changed and left the content field, and both Updates have
\* completed, the stored document holds the typed title and the typed content.
C17_BothEditsStored ==
    (uiDone = MaxEdits /\ opsIssued = MaxEdits /\ ops = <<>>) =>
        /\ DocOf(store, selectedNote.id).title \in DraftTitles
        /\ DocOf(store, selectedNote.id).content \in DraftContents

\* C18: after the callback has processed a snapshot that contains the
\* identifier of the selected note, the selected note has the title and the
\* content of the snapshot's entry with that identifier.
C18_SelectionRefreshed ==
    (last.kind = "snapshot" /\ selectedNote # NoNote) =>
        \A i \in 1..Len(notes) :
            notes[i].id = selectedNote.id =>
                /\ selectedNote.title = notes[i].title
                /\ selectedNote.content = notes[i].content

\* the list is the store's notes, each once, with their titles and contents,
\* in the descending order of the stored updatedAt, and the selection is none
\* or a note of the store
C19_Settled ==
    /\ NoteIds(notes) = StoreIds(store)
    /\ Len(notes) = Cardinality(store)
    /\ \A i \in 1..Len(notes) :
          /\ notes[i].title = DocOf(store, notes[i].id).title
          /\ notes[i].content = DocOf(store, notes[i].id).content
    /\ \A i \in 1..(Len(notes) - 1) :
          DocOf(store, notes[i].id).updatedAt >= DocOf(store, notes[i + 1].id).updatedAt
    /\ selectedNote = NoNote \/ selectedNote.id \in StoreIds(store)

====
